---------------------------- MODULE Spec2Model ----------------------------
(***************************************************************************)
(* A model of the URL heuristic engine (analyzeURL, getHostname,           *)
(* levenshtein) and of the form handler that calls it.                     *)
(*                                                                         *)
(* A string is a sequence of one-character strings, so that indexing,      *)
(* slicing, splitting and searching are computed as the code computes      *)
(* them.  The characters of the model are the printable ASCII characters   *)
(* other than the brackets of an IPv6 literal; the platform's URL class is *)
(* modelled on hosts over those characters, without punycode ("xn--")      *)
(* labels and without percent escapes of %80 and above.                    *)
(***************************************************************************)
EXTENDS Integers, Sequences, FiniteSets, TLC

VARIABLES
    urlInput,      \* value of the #urlInput field
    lastUrl,       \* the argument of the last call of analyzeURL
    analysis,      \* the object that call returned
    prev,          \* the object the call before it returned
    resultText,    \* textContent of #resultText
    resultColor,   \* its style.color
    detailsText,   \* textContent of #resultDetails
    hidden,        \* whether #result still carries the class "hidden"
    alerted,       \* whether the last submit raised the alert
    levA, levB,    \* the arguments of a levenshtein call
    levDist        \* the value it returned

vars == << urlInput, lastUrl, analysis, prev, resultText, resultColor, detailsText,
           hidden, alerted, levA, levB, levDist >>

-----------------------------------------------------------------------------
(* Bounds of the model.                                                    *)

\* Longest string of the exhaustive input set.
MaxLen == 3
\* Longest string handed to levenshtein in SpecLev.
MaxLevLen == 3

-----------------------------------------------------------------------------
(* Characters.                                                             *)

Digits == {"0", "1", "2", "3", "4", "5", "6", "7", "8", "9"}

LowerLetters == << "a", "b", "c", "d", "e", "f", "g", "h", "i", "j", "k", "l", "m",
                   "n", "o", "p", "q", "r", "s", "t", "u", "v", "w", "x", "y", "z" >>

UpperLetters == << "A", "B", "C", "D", "E", "F", "G", "H", "I", "J", "K", "L", "M",
                   "N", "O", "P", "Q", "R", "S", "T", "U", "V", "W", "X", "Y", "Z" >>

LowerSet == { LowerLetters[i] : i \in 1..26 }

UpperSet == { UpperLetters[i] : i \in 1..26 }

IsDigit(c) == c \in Digits

IsAlpha(c) == c \in LowerSet \/ c \in UpperSet

\* \w of a JavaScript regular expression
IsWordChar(c) == IsAlpha(c) \/ IsDigit(c) \/ c = "_"

HexDigits == << "0", "1", "2", "3", "4", "5", "6", "7", "8", "9",
                "a", "b", "c", "d", "e", "f" >>

LowerChar(c) ==
    IF c \in UpperSet
    THEN LowerLetters[CHOOSE i \in 1..26 : UpperLetters[i] = c]
    ELSE c

IsHexDigit(c) == \E i \in 1..16 : HexDigits[i] = LowerChar(c)

HexVal(c) == (CHOOSE i \in 1..16 : HexDigits[i] = LowerChar(c)) - 1

\* The printable ASCII characters, 0x20 to 0x7E, in code order.
AsciiTable ==
    << " ", "!", "\"", "#", "$", "%", "&", "'", "(", ")", "*", "+", ",", "-", ".", "/",
       "0", "1", "2", "3", "4", "5", "6", "7", "8", "9", ":", ";", "<", "=", ">", "?",
       "@", "A", "B", "C", "D", "E", "F", "G", "H", "I", "J", "K", "L", "M", "N", "O",
       "P", "Q", "R", "S", "T", "U", "V", "W", "X", "Y", "Z", "[", "\\", "]", "^", "_",
       "<grave>", "a", "b", "c", "d", "e", "f", "g", "h", "i", "j", "k", "l", "m", "n", "o",
       "p", "q", "r", "s", "t", "u", "v", "w", "x", "y", "z", "{", "|", "}", "~" >>

\* ("<grave>" stands for the character 0x60, which the lexer of TLA+ rejects
\* inside a string.)
\* A decoded byte that is no printable ASCII character.
OtherByte == "<byte>"

-----------------------------------------------------------------------------
(* String operations of the JavaScript runtime.                            *)

Min2(a, b) == IF a <= b THEN a ELSE b

Max2(a, b) == IF a >= b THEN a ELSE b

SetMin(S) == CHOOSE x \in S : \A y \in S : x <= y

SetMax(S) == CHOOSE x \in S : \A y \in S : x >= y

\* A sequence given as a function on 1..n, as the tuple of its values.
Tuple(f) == SubSeq(f, 1, Len(f))

\* s.slice(i - 1): the characters of s from position i on
From(s, i) == SubSeq(s, i, Len(s))

\* Whether sub occurs in s at position i.
OccursAt(s, sub, i) ==
    /\ i >= 1
    /\ i + Len(sub) - 1 <= Len(s)
    /\ \A k \in 1..Len(sub) : s[i + k - 1] = sub[k]

\* s.indexOf(sub, from - 1) + 1: the first position >= from where sub occurs, or 0
IndexFrom(s, sub, from) ==
    LET hits == { i \in from..(Len(s) - Len(sub) + 1) : OccursAt(s, sub, i) }
    IN  IF hits = {} THEN 0 ELSE SetMin(hits)

IndexOf(s, sub) == IndexFrom(s, sub, 1)

\* s.includes(sub)
Includes(s, sub) == IndexOf(s, sub) # 0

StartsWith(s, pre) == OccursAt(s, pre, 1)

\* s.endsWith(suf)
EndsWith(s, suf) == Len(suf) <= Len(s) /\ OccursAt(s, suf, Len(s) - Len(suf) + 1)

\* s.toLowerCase()
toLowerCase(s) == Tuple([ i \in 1..Len(s) |-> LowerChar(s[i]) ])

\* (s.match(/c/g) || []).length for a one-character class
CountIn(s, C) == Cardinality({ i \in 1..Len(s) : s[i] \in C })

\* s.trim()
Trim(s) ==
    LET keep == { i \in 1..Len(s) : s[i] # " " }
    IN  IF keep = {} THEN << >> ELSE SubSeq(s, SetMin(keep), SetMax(keep))

\* The first position of a character of C in s, or Len(s) + 1.
FirstOf(s, C) ==
    LET hits == { i \in 1..Len(s) : s[i] \in C }
    IN  IF hits = {} THEN Len(s) + 1 ELSE SetMin(hits)

\* The k-th smallest element of the set P of positions; 0 for k = 0 and
\* end for k beyond the last.
Nth(P, k, end) ==
    IF k = 0 THEN 0
    ELSE IF k > Cardinality(P) THEN end
    ELSE CHOOSE d \in P : Cardinality({ e \in P : e < d }) = k - 1

\* The pieces of s between the consecutive positions of P.
SplitAt(s, P) ==
    Tuple([ k \in 1..(Cardinality(P) + 1) |->
              SubSeq(s, Nth(P, k - 1, Len(s) + 1) + 1, Nth(P, k, Len(s) + 1) - 1) ])

\* s.split(".")
SplitDot(s) == SplitAt(s, { i \in 1..Len(s) : s[i] = "." })

\* s.replace(/x/g, y) for a single character x
ReplaceChar(s, x, y) == Tuple([ i \in 1..Len(s) |-> IF s[i] = x THEN y ELSE s[i] ])

\* s.replace(/[^\w.]/g, "")
KeepWordOrDot(s) == SelectSeq(s, LAMBDA c : IsWordChar(c) \/ c = ".")

\* s.repeat(n)
Repeat(s, n) == Tuple([ i \in 1..(n * Len(s)) |-> s[((i - 1) % Len(s)) + 1] ])

-----------------------------------------------------------------------------
(* Configuration lists.                                                    *)

POPULAR_DOMAINS ==
    << <<"g", "o", "o", "g", "l", "e", ".", "c", "o", "m">>,
       <<"f", "a", "c", "e", "b", "o", "o", "k", ".", "c", "o", "m">>,
       <<"y", "o", "u", "t", "u", "b", "e", ".", "c", "o", "m">>,
       <<"a", "m", "a", "z", "o", "n", ".", "c", "o", "m">>,
       <<"t", "w", "i", "t", "t", "e", "r", ".", "c", "o", "m">>,
       <<"l", "i", "n", "k", "e", "d", "i", "n", ".", "c", "o", "m">>,
       <<"a", "p", "p", "l", "e", ".", "c", "o", "m">>,
       <<"g", "i", "t", "h", "u", "b", ".", "c", "o", "m">>,
       <<"m", "i", "c", "r", "o", "s", "o", "f", "t", ".", "c", "o", "m">>,
       <<"p", "a", "y", "p", "a", "l", ".", "c", "o", "m">>,
       <<"w", "i", "k", "i", "p", "e", "d", "i", "a", ".", "o", "r", "g">>,
       <<"i", "n", "s", "t", "a", "g", "r", "a", "m", ".", "c", "o", "m">> >>

SUSPICIOUS_TLDS ==
    << <<".", "t", "k">>, <<".", "m", "l">>, <<".", "g", "a">>, <<".", "c", "f">>,
       <<".", "g", "q">>, <<".", "x", "y", "z">>, <<".", "t", "o", "p">>, <<".", "b", "i", "z">> >>

FRAUD_KEYWORDS ==
    << <<"l", "o", "g", "i", "n">>, <<"v", "e", "r", "i", "f", "y">>, <<"u", "p", "d", "a", "t", "e">>,
       <<"s", "e", "c", "u", "r", "e">>, <<"b", "a", "n", "k">>, <<"a", "c", "c", "o", "u", "n", "t">>,
       <<"p", "a", "y", "p", "a", "l">>, <<"c", "o", "n", "f", "i", "r", "m">>, <<"p", "a", "s", "s", "w", "o", "r", "d">>,
       <<"s", "i", "g", "n", "i", "n">>, <<"c", "l", "i", "c", "k">>, <<"f", "r", "e", "e">>,
       <<"w", "i", "n", "n", "e", "r">>, <<"c", "l", "a", "i", "m">>, <<"u", "r", "g", "e", "n", "t">> >>

-----------------------------------------------------------------------------
(* levenshtein(a, b).  Row i of the table dp is the function dp[i][0..n].  *)
(* Line 29 makes dp[i][j] the least of dp[i][j-1] + 1 and of               *)
(*     t[j] = min(dp[i-1][j] + 1, dp[i-1][j-1] + cost),                    *)
(* so that, with t[0] = dp[i][0] = i, the loop over j leaves               *)
(*     dp[i][j] = min { t[k] + (j - k) : k \in 0..j }.                     *)

\* cost of line 28, always 1
LevCostAlwaysOne(x, y) == 1

\* cost of line 28
LevCost(x, y) == IF x = y THEN 0 ELSE 1

\* dp[i][0..n] from dp[i-1][0..n], for the character x = a[i-1]; a row is the
\* sequence of its n + 1 cells, dp[i][j] at position j + 1
LevRow(above, x, b, i) ==
    LET n == Len(b)
        t == Tuple([ k \in 1..(n + 1) |->
                       IF k = 1 THEN i
                       ELSE Min2(above[k] + 1, above[k - 1] + LevCost(x, b[k - 1])) ])
    IN  Tuple([ j \in 1..(n + 1) |-> SetMin({ t[k] + (j - k) : k \in 1..j }) ])

\* The loop over i, from the row above the next one to the last: a row's
\* first cell, dp[i][0], is its index i.
RECURSIVE LevRows(_, _, _)
LevRows(a, b, above) ==
    IF above[1] = Len(a) THEN above
    ELSE LevRows(a, b, LevRow(above, a[above[1] + 1], b, above[1] + 1))

\* dp[0][0..n]
LevRowZero(b) == Tuple([ j \in 1..(Len(b) + 1) |-> j - 1 ])

levenshtein(a, b) ==
    IF a = << >> THEN Len(b)
    ELSE IF b = << >> THEN Len(a)
    ELSE LevRows(a, b, LevRowZero(b))[Len(b) + 1]

-----------------------------------------------------------------------------
(* The platform's URL class, as far as `new URL(tmp).hostname` needs it:   *)
(* the basic URL parser up to the end of the port, and the host parser.    *)
(* Nothing after the port can make the parser fail.                        *)

SpecialSchemes == { <<"h", "t", "t", "p">>, <<"h", "t", "t", "p", "s">>, <<"f", "t", "p">>, <<"w", "s">>, <<"w", "s", "s">> }

\* forbidden host code points, among the characters of the model
ForbiddenHost == { " ", "#", "/", ":", "<", ">", "?", "@", "[", "\\", "]", "^", "|",
                   OtherByte }

\* forbidden domain code points
ForbiddenDomain == ForbiddenHost \cup { "%" }

Failure == [ failure |-> TRUE, hostname |-> << >> ]

Host(h) == [ failure |-> FALSE, hostname |-> h ]

\* percent-decode: %XX with two hex digits is the byte XX (an escape never
\* starts inside another one, a hex digit being no "%")
PercentDecode(s) ==
    LET escape(i) == /\ i >= 1
                     /\ i + 2 <= Len(s)
                     /\ s[i] = "%" /\ IsHexDigit(s[i + 1]) /\ IsHexDigit(s[i + 2])
        byte(i)   == 16 * HexVal(s[i + 1]) + HexVal(s[i + 2])
    IN  SelectSeq([ i \in 1..Len(s) |->
                      IF escape(i)
                      THEN IF byte(i) >= 32 /\ byte(i) <= 126
                           THEN AsciiTable[byte(i) - 31] ELSE OtherByte
                      ELSE IF escape(i - 1) \/ escape(i - 2) THEN "" ELSE s[i] ],
                  LAMBDA c : c # "")

\* An IPv4 number is kept as its four bytes, most significant first, and a
\* flag telling that it does not fit in them.
Ipv4Zero == [ bytes |-> << 0, 0, 0, 0 >>, over |-> FALSE ]

\* the four bytes from the four column sums t1..t4, carries still to move
Ipv4Carry1(over, t1, t2, t3, t4) ==
    [ bytes |-> << t1 % 256, t2 % 256, t3 % 256, t4 % 256 >>,
      over  |-> over \/ t1 >= 256 ]

Ipv4Carry2(v, radix, t2, t3, t4) ==
    Ipv4Carry1(v.over, (v.bytes[1] * radix) + (t2 \div 256), t2, t3, t4)

Ipv4Carry3(v, radix, t3, t4) ==
    Ipv4Carry2(v, radix, (v.bytes[2] * radix) + (t3 \div 256), t3, t4)

Ipv4Carry4(v, radix, t4) == Ipv4Carry3(v, radix, (v.bytes[3] * radix) + (t4 \div 256), t4)

\* v * radix + d
Ipv4MulAdd(v, radix, d) == Ipv4Carry4(v, radix, (v.bytes[4] * radix) + d)

RECURSIVE Ipv4Digits(_, _, _)
Ipv4Digits(s, radix, acc) ==
    IF s = << >> THEN acc
    ELSE Ipv4Digits(From(s, 2), radix, Ipv4MulAdd(acc, radix, HexVal(s[1])))

\* the digits of an IPv4 number in their radix: [failure, value]
Ipv4Radix(digits, radix) ==
    IF \E i \in 1..Len(digits) : ~IsHexDigit(digits[i]) \/ HexVal(digits[i]) >= radix
    THEN [ failure |-> TRUE, value |-> Ipv4Zero ]
    ELSE [ failure |-> FALSE, value |-> Ipv4Digits(digits, radix, Ipv4Zero) ]

\* the IPv4 number parser
Ipv4Number(part) ==
    IF part = << >> THEN [ failure |-> TRUE, value |-> Ipv4Zero ]
    ELSE IF Len(part) >= 2 /\ part[1] = "0" /\ part[2] \in {"x", "X"}
    THEN Ipv4Radix(From(part, 3), 16)
    ELSE IF Len(part) >= 2 /\ part[1] = "0" THEN Ipv4Radix(From(part, 2), 8)
    ELSE Ipv4Radix(part, 10)

\* parts without its last item when that is the empty string
DropEmptyLast(parts) ==
    IF parts[Len(parts)] = << >> THEN SubSeq(parts, 1, Len(parts) - 1) ELSE parts

AllDigits(s) == \A i \in 1..Len(s) : IsDigit(s[i])

\* the ends-in-a-number checker, on the parts left
LastIsNumber(parts) ==
    /\ parts # << >>
    /\ \/ parts[Len(parts)] # << >> /\ AllDigits(parts[Len(parts)])
       \/ ~Ipv4Number(parts[Len(parts)]).failure

\* the ends-in-a-number checker
EndsInNumber(domain) == LastIsNumber(DropEmptyLast(SplitDot(domain)))

\* the decimal digits of a byte
ByteToString(n) ==
    IF n >= 100
    THEN << HexDigits[(n \div 100) + 1], HexDigits[((n \div 10) % 10) + 1],
            HexDigits[(n % 10) + 1] >>
    ELSE IF n >= 10 THEN << HexDigits[(n \div 10) + 1], HexDigits[(n % 10) + 1] >>
    ELSE << HexDigits[n + 1] >>

\* the IPv4 serializer
Ipv4Serialize(o) ==
    ByteToString(o[1]) \o << "." >> \o ByteToString(o[2]) \o << "." >>
        \o ByteToString(o[3]) \o << "." >> \o ByteToString(o[4])

\* the IPv4 parser on the numbers of its parts: all but the last are at most
\* 255, and the last is less than 256^(5 - n)
Ipv4OfNumbers(nums, n) ==
    IF n > 4 THEN Failure
    ELSE IF \E i \in 1..n : nums[i].failure THEN Failure
    ELSE IF \E i \in 1..(n - 1) :
               nums[i].value.over \/ \E k \in 1..3 : nums[i].value.bytes[k] # 0
    THEN Failure
    ELSE IF nums[n].value.over \/ \E k \in 1..(n - 1) : nums[n].value.bytes[k] # 0
    THEN Failure
    ELSE Host(Ipv4Serialize([ k \in 1..4 |->
                                IF k < n THEN nums[k].value.bytes[4]
                                ELSE nums[n].value.bytes[k] ]))

Ipv4OfParts(parts) ==
    Ipv4OfNumbers(Tuple([ i \in 1..Len(parts) |-> Ipv4Number(parts[i]) ]), Len(parts))

Ipv4Split(parts) == IF Len(parts) > 1 THEN DropEmptyLast(parts) ELSE parts

\* the IPv4 parser
Ipv4Parse(domain) == Ipv4OfParts(Ipv4Split(SplitDot(domain)))

\* the host parser on an opaque host
OpaqueHost(input) ==
    IF \E i \in 1..Len(input) : input[i] \in ForbiddenHost THEN Failure ELSE Host(input)

\* the host parser on the result of domain to ASCII
DomainHost(asciiDomain) ==
    IF \E i \in 1..Len(asciiDomain) : asciiDomain[i] \in ForbiddenDomain THEN Failure
    ELSE IF EndsInNumber(asciiDomain) THEN Ipv4Parse(asciiDomain)
    ELSE Host(asciiDomain)

\* the host parser (no IPv6 literal)
HostParse(input, isOpaque) ==
    IF isOpaque THEN OpaqueHost(input)
    ELSE DomainHost(toLowerCase(PercentDecode(input)))

\* the value of a port's digits, capped above the largest port
RECURSIVE PortValue(_, _)
PortValue(s, acc) ==
    IF s = << >> THEN acc
    ELSE PortValue(From(s, 2), Min2(65536, acc * 10 + HexVal(s[1])))

\* file host state, on its buffer and the host parsed from it
FileHostOf(buffer, host) ==
    IF buffer = << >> THEN Host(<< >>)
    ELSE IF Len(buffer) = 2 /\ IsAlpha(buffer[1]) /\ buffer[2] \in {":", "|"}
    THEN Host(<< >>)
    ELSE IF host.failure THEN Failure
    ELSE IF host.hostname = <<"l", "o", "c", "a", "l", "h", "o", "s", "t">> THEN Host(<< >>)
    ELSE host

FileBuffer(buffer) == FileHostOf(buffer, HostParse(buffer, FALSE))

\* file state, file slash state and file host state
FileHost(rest) == FileBuffer(SubSeq(rest, 1, FirstOf(rest, {"/", "\\", "?", "#"}) - 1))

\* port state, on the host parsed before it
PortState(host, port, hasPort) ==
    IF host.failure THEN Failure
    ELSE IF hasPort /\ ~AllDigits(port) THEN Failure
    ELSE IF hasPort /\ PortValue(port, 0) > 65535 THEN Failure
    ELSE host

\* host state, on the text after the credentials; colon is the position of
\* its first ":", or beyond its end
HostState(hostport, colon, special) ==
    IF colon <= Len(hostport) /\ colon = 1 THEN Failure
    ELSE IF colon > Len(hostport) /\ special /\ hostport = << >> THEN Failure
    ELSE PortState(HostParse(SubSeq(hostport, 1, colon - 1), ~special),
                   From(hostport, colon + 1), colon <= Len(hostport))

\* authority state: the host and port follow the last "@"
AfterCredentials(authority, ats, special) ==
    IF ats # {} /\ SetMax(ats) = Len(authority) THEN Failure
    ELSE IF ats # {}
    THEN HostState(From(authority, SetMax(ats) + 1),
                   FirstOf(From(authority, SetMax(ats) + 1), {":"}), special)
    ELSE HostState(authority, FirstOf(authority, {":"}), special)

Authority(authority, special) ==
    AfterCredentials(authority, { i \in 1..Len(authority) : authority[i] = "@" }, special)

\* authority state, host state and port state, from the first character
\* after the slashes that follow the scheme
AuthorityHost(rest, special) ==
    Authority(SubSeq(rest, 1,
                     FirstOf(rest, IF special THEN {"/", "\\", "?", "#"}
                                   ELSE {"/", "?", "#"}) - 1),
              special)

\* The position of the ':' that ends a leading /^[a-zA-Z]+:\/\// , or 0.
SchemeAt(s, k) == IF k >= 2 /\ OccursAt(s, <<":", "/", "/">>, k) THEN k ELSE 0

SchemeEnd(s) == SchemeAt(s, FirstOf(s, { c \in { s[i] : i \in 1..Len(s) } : ~IsAlpha(c) }))

\* The characters after the slashes and backslashes that s starts with.
SkipSlashes(s) ==
    From(s, FirstOf(s, { c \in { s[i] : i \in 1..Len(s) } : c \notin {"/", "\\"} }))

\* scheme state, on the scheme and what follows its "://"
AfterScheme(scheme, rest) ==
    IF scheme = <<"f", "i", "l", "e">> THEN FileHost(rest)
    ELSE IF scheme \in SpecialSchemes THEN AuthorityHost(SkipSlashes(rest), TRUE)
    ELSE AuthorityHost(rest, FALSE)

SchemeState(stripped, k) ==
    AfterScheme(toLowerCase(SubSeq(stripped, 1, k - 1)), From(stripped, k + 3))

\* new URL(tmp).hostname, for a tmp that starts with letters and "://"
URLHostname(tmp) == SchemeState(Trim(tmp), SchemeEnd(Trim(tmp)))

\* hostname.toLowerCase(), or the failure caught
LowerHostname(u) == IF u.failure THEN Failure ELSE Host(toLowerCase(u.hostname))

\* getHostname(url): null is the failure record, otherwise the hostname
getHostname(url) ==
    LowerHostname(URLHostname(IF SchemeEnd(url) = 0 THEN <<"h", "t", "t", "p", ":", "/", "/">> \o url ELSE url))
-----------------------------------------------------------------------------
(* analyzeURL.  A reason is the fixed text of its message and the value    *)
(* interpolated into it (empty when the message has none).  What a rule    *)
(* contributes is the reasons it pushes and what it adds to score.         *)

Reason(text, arg) == [ text |-> text, arg |-> arg ]

Nothing == [ reasons |-> << >>, score |-> 0 ]

Push(text, arg, weight) == [ reasons |-> << Reason(text, arg) >>, score |-> weight ]

Plus(a, b) == [ reasons |-> a.reasons \o b.reasons, score |-> a.score + b.score ]

NoSpaceOrQuote(s) == \A i \in 1..Len(s) : s[i] \notin {" ", "\""}

\* /^(ftp|http|https):\/\/[^ "]+$/.test(url)
ProtocolPattern(url) ==
    \E scheme \in { <<"f", "t", "p">>, <<"h", "t", "t", "p">>, <<"h", "t", "t", "p", "s">> } :
        LET pre == scheme \o <<":", "/", "/">>
        IN  /\ StartsWith(url, pre)
            /\ Len(url) > Len(pre)
            /\ NoSpaceOrQuote(From(url, Len(pre) + 1))

\* /^[^ "]+\.[^ "]+$/.test(url)
BareDomainPattern(url) ==
    /\ NoSpaceOrQuote(url)
    /\ \E i \in 2..(Len(url) - 1) : url[i] = "."

RuleMalformed(url) ==
    IF ~ProtocolPattern(url) /\ ~BareDomainPattern(url)
    THEN Push("Malformed or missing protocol.", << >>, 1)
    ELSE Nothing

\* four groups of three digits each
ThreeDigitGroups(parts) ==
    /\ Len(parts) = 4
    /\ \A p \in 1..4 : Len(parts[p]) = 3 /\ AllDigits(parts[p])

\* four groups of one to three digits each
DigitGroups(parts) ==
    /\ Len(parts) = 4
    /\ \A p \in 1..4 : Len(parts[p]) \in 1..3 /\ AllDigits(parts[p])

\* /^\d{3}(\.\d{3}){3}$/.test(hostname)
RawIPThreeDigits(hostname) == ThreeDigitGroups(SplitDot(hostname))

\* /^\d{1,3}(\.\d{1,3}){3}$/.test(hostname)
RawIPPattern(hostname) == DigitGroups(SplitDot(hostname))

RuleRawIP(hostname) ==
    IF RawIPPattern(hostname) THEN Push("Uses raw IP address.", << >>, 5) ELSE Nothing

RuleLongURL(url) ==
    IF Len(url) > 100 THEN Push("Very long URL.", << >>, 2) ELSE Nothing

RuleLongHostname(hostname) ==
    IF Len(hostname) > 50 THEN Push("Very long hostname.", << >>, 2) ELSE Nothing

RuleSubdomains(hostname) ==
    IF Len(SplitDot(hostname)) >= 4 THEN Push("Multiple subdomains.", << >>, 2) ELSE Nothing

\* the loop over SUSPICIOUS_TLDS from index i on, with its break
RECURSIVE RuleTLDFrom(_, _)
RuleTLDFrom(hostname, i) ==
    IF i > Len(SUSPICIOUS_TLDS) THEN Nothing
    ELSE IF EndsWith(hostname, SUSPICIOUS_TLDS[i])
    THEN Push("Suspicious TLD: ", SUSPICIOUS_TLDS[i], 3)
    ELSE RuleTLDFrom(hostname, i + 1)

RuleTLD(hostname) == RuleTLDFrom(hostname, 1)

\* /%[0-9A-Fa-f]{2}/.test(url)
PercentPattern(url) ==
    \E i \in 1..(Len(url) - 2) :
        url[i] = "%" /\ IsHexDigit(url[i + 1]) /\ IsHexDigit(url[i + 2])

RulePercent(url) ==
    IF PercentPattern(url) THEN Push("Contains percent-encoding.", << >>, 1) ELSE Nothing

\* line 83 with the weight 3
AtWeightThree(url) ==
    IF CountIn(url, {"@"}) > 0 THEN Push("Contains '@' symbol.", << >>, 3) ELSE Nothing

RuleAt(url) ==
    IF CountIn(url, {"@"}) > 0 THEN Push("Contains '@' symbol.", << >>, 4) ELSE Nothing

RuleHyphens(hostname) ==
    IF CountIn(hostname, {"-"}) >= 2 THEN Push("Many hyphens in domain.", << >>, 1) ELSE Nothing

\* line 87 with the threshold 5
DigitsAtLeastFive(hostname) ==
    IF CountIn(hostname, Digits) >= 5 THEN Push("Many digits in domain.", << >>, 1) ELSE Nothing

RuleDigits(hostname) ==
    IF CountIn(hostname, Digits) >= 3 THEN Push("Many digits in domain.", << >>, 1) ELSE Nothing

\* the loop over FRAUD_KEYWORDS from index i on
RECURSIVE RuleKeywordsFrom(_, _)
RuleKeywordsFrom(url, i) ==
    IF i > Len(FRAUD_KEYWORDS) THEN Nothing
    ELSE Plus(IF Includes(toLowerCase(url), FRAUD_KEYWORDS[i])
              THEN Push("Contains keyword ", FRAUD_KEYWORDS[i], 2)
              ELSE Nothing,
              RuleKeywordsFrom(url, i + 1))

RuleKeywords(url) == RuleKeywordsFrom(url, 1)

\* hostname.replace(/0/g,"o").replace(/1/g,"l").replace(/3/g,"e").replace(/[^\w.]/g,"")
Normalized(hostname) ==
    KeepWordOrDot(ReplaceChar(ReplaceChar(ReplaceChar(hostname, "0", "o"), "1", "l"),
                              "3", "e"))

\* line 98 without normalized !== pd
SimilarOrEqual(normalized, pd) ==
    4 * levenshtein(normalized, pd) <= Max2(Len(normalized), Len(pd))

\* dist / Math.max(normalized.length, pd.length) <= 0.25 && normalized !== pd
Similar(normalized, pd) ==
    /\ 4 * levenshtein(normalized, pd) <= Max2(Len(normalized), Len(pd))
    /\ normalized # pd

\* the same loop without the break
RECURSIVE TyposquatNoBreakFrom(_, _)
TyposquatNoBreakFrom(normalized, i) ==
    IF i > Len(POPULAR_DOMAINS) THEN Nothing
    ELSE Plus(IF Similar(normalized, POPULAR_DOMAINS[i])
              THEN Push("Looks similar to popular site ", POPULAR_DOMAINS[i], 4)
              ELSE Nothing,
              TyposquatNoBreakFrom(normalized, i + 1))

\* the loop over POPULAR_DOMAINS from index i on, with its break
RECURSIVE RuleTyposquatFrom(_, _)
RuleTyposquatFrom(normalized, i) ==
    IF i > Len(POPULAR_DOMAINS) THEN Nothing
    ELSE IF Similar(normalized, POPULAR_DOMAINS[i])
    THEN Push("Looks similar to popular site ", POPULAR_DOMAINS[i], 4)
    ELSE RuleTyposquatFrom(normalized, i + 1)

RuleTyposquat(hostname) == RuleTyposquatFrom(Normalized(hostname), 1)

\* the piece from position after to the next occurrence of the separator
Piece(url, after, second) ==
    IF second = 0 THEN From(url, after) ELSE SubSeq(url, after, second - 1)

PathFrom(url, hostname, first) ==
    IF first = 0 THEN << >>
    ELSE Piece(url, first + Len(hostname),
               IndexFrom(url, hostname, first + Len(hostname)))

\* url.split(hostname)[1] || ""
PathOf(url, hostname) == PathFrom(url, hostname, IndexOf(url, hostname))

RuleLongPath(path) ==
    IF Len(path) > 80 THEN Push("Long path or query.", << >>, 1) ELSE Nothing

RuleManyParams(path) ==
    IF CountIn(path, {"?", "&"}) >= 5 THEN Push("Many query parameters.", << >>, 1)
    ELSE Nothing

\* lines 110-112 with > in place of >=
VerdictStrict(score) ==
    IF score > 8 THEN "Fraudulent" ELSE IF score > 4 THEN "Suspicious" ELSE "Safe"

\* lines 110-112
Verdict(score) ==
    IF score >= 8 THEN "Fraudulent" ELSE IF score >= 4 THEN "Suspicious" ELSE "Safe"

\* the object returned at line 114
Result(total) ==
    [ score |-> total.score, verdict |-> Verdict(total.score), reasons |-> total.reasons ]

\* the object returned at line 60
Fraudulent(total) ==
    [ score |-> total.score, verdict |-> "Fraudulent", reasons |-> total.reasons ]

\* lines 57-61
CannotParse(sofar) == Fraudulent(Plus(sofar, Push("Cannot parse hostname.", << >>, 3)))

\* lines 63-102
Battery(url, hostname) ==
    Plus(RuleRawIP(hostname),
    Plus(RuleLongURL(url),
    Plus(RuleLongHostname(hostname),
    Plus(RuleSubdomains(hostname),
    Plus(RuleTLD(hostname),
    Plus(RulePercent(url),
    Plus(RuleAt(url),
    Plus(RuleHyphens(hostname),
    Plus(RuleDigits(hostname),
    Plus(RuleKeywords(url),
         RuleTyposquat(hostname)))))))))))

PathChecks(path) == Plus(RuleLongPath(path), RuleManyParams(path))

\* lines 104-107
PathRules(url, hostname) == PathChecks(PathOf(url, hostname))

\* the verdict of line 111 taken from the score before the path checks
EarlyVerdict(early, total) ==
    [ score |-> total.score, verdict |-> Verdict(early.score), reasons |-> total.reasons ]

\* lines 56-114 with the short-circuit replaced by a fall-through to the thresholds
AnalyzeNoShortCircuit(url, sofar, host) ==
    IF host.failure \/ host.hostname = << >>
    THEN Result(Plus(sofar, Push("Cannot parse hostname.", << >>, 3)))
    ELSE Result(Plus(Plus(sofar, Battery(url, host.hostname)),
                     PathRules(url, host.hostname)))

\* lines 56-114 with the verdict taken before the path and query checks
AnalyzeEarlyVerdict(url, sofar, host) ==
    IF host.failure \/ host.hostname = << >> THEN CannotParse(sofar)
    ELSE EarlyVerdict(Plus(sofar, Battery(url, host.hostname)),
                      Plus(Plus(sofar, Battery(url, host.hostname)),
                           PathRules(url, host.hostname)))

\* lines 56-114, on what the format check gave and on getHostname's result
Analyze(url, sofar, host) ==
    IF host.failure \/ host.hostname = << >> THEN CannotParse(sofar)
    ELSE Result(Plus(Plus(sofar, Battery(url, host.hostname)),
                     PathRules(url, host.hostname)))

analyzeURL(url) == Analyze(url, RuleMalformed(url), getHostname(url))
-----------------------------------------------------------------------------
(* Inputs.                                                                 *)

\* characters of the exhaustive input set
Alphabet == { "a", "1", ".", ":", "/", "@", " ", "?" }

\* all strings over A of length n
RECURSIVE StringsOfLen(_, _)
StringsOfLen(A, n) ==
    IF n = 0 THEN { << >> }
    ELSE { Append(s, c) : s \in StringsOfLen(A, n - 1), c \in A }

\* all strings over A of length at most n
StringsUpTo(A, n) == UNION { StringsOfLen(A, k) : k \in 0..n }

ShortInputs == StringsUpTo(Alphabet, MaxLen)

InputSchemes ==
    { << >>, <<"h", "t", "t", "p", ":", "/", "/">>, <<"h", "t", "t", "p", "s", ":", "/", "/">>, <<"H", "T", "T", "P", ":", "/", "/">>, <<"a", "b", "c", ":", "/", "/">>, <<"f", "i", "l", "e", ":", "/", "/">>,
      <<"h", "t", "t", "p", ":", "/">> }

InputHosts ==
    { << >>,
      <<"g", "o", "o", "g", "l", "e", ".", "c", "o", "m">>, <<"g", "o", "0", "g", "l", "e", ".", "c", "o", "m">>, <<"g", "o", "o", "o", "g", "l", "e", ".", "c", "o", "m">>, <<"a", "p", "o", "g", "l", "e", ".", "c", "o", "m">>,
      <<"g", "o", "o", "-", "g", "l", "e", ".", "c", "o", "m">>, <<"p", "a", "y", "p", "a", "1", ".", "c", "o", "m">>, <<"P", "a", "y", "P", "a", "l", ".", "c", "o", "m">>,
      <<"1", "9", "2", ".", "1", "6", "8", ".", "1", ".", "1">>, <<"0", "x", "7", "f", ".", "1">>, <<"0", "8", ".", "1", ".", "1", ".", "1">>, <<"1", ".", "2", ".", "3", ".", "4", ".", "5">>, <<"9", "9", "9", ".", "1", ".", "1", ".", "1">>,
      <<"a", ".", "c", "o">>, <<"a", ".", "b", ".", "c", ".", "c", "o">>, <<"x", ".", "t", "k">>, <<"s", "e", "c", "u", "r", "e", "-", "l", "o", "g", "i", "n", ".", "x", "y", "z">>,
      <<"m", "y", "-", "b", "a", "n", "k", "-", "2", "0", "2", "4", ".", "b", "i", "z">>, <<"u", "s", "e", "r", "@", "a", ".", "c", "o">>, <<"a", ".", "c", "o", ":", "8", "0", "8", "0">>, <<"a", ".", "c", "o", ":", "9", "9", "9", "9", "9">>,
      <<"e", "x", "%", "4", "1", "m", "p", "l", "e", ".", "c", "o", "m">>, <<"a", "_", "b", "%", "z", "z", ".", "c", "o", "m">>, <<"l", "o", "c", "a", "l", "h", "o", "s", "t">>, <<"c", ":">>,
      Repeat(<<"w">>, 51) \o <<".", "t", "o", "p">> }

InputPaths ==
    { << >>, <<"/">>, <<"/", "l", "o", "g", "i", "n">>, <<"/", "a", ".", "c", "o", "?", "a", "&", "b", "&", "c", "&", "d", "&", "e">>, <<"?", "a", "&", "b", "&", "c", "&", "d", "&", "e">>,
      <<"/", "%", "2", "0", "/", "V", "e", "r", "i", "f", "y", "?", "u", "p", "d", "a", "t", "e", "=", "1">>, <<" ", "a", "t", " ", "a", "l", "l">>,
      <<"/">> \o Repeat(<<"p">>, 81), <<"/", "a", ".", "c", "o", "/">> \o Repeat(<<"p">>, 81) }

Inputs ==
    ShortInputs
    \cup { s \o h \o p : s \in InputSchemes, h \in InputHosts, p \in InputPaths }
    \cup { <<"n", "o", "t", " ", "a", " ", "u", "r", "l", " ", "a", "t", " ", "a", "l", "l">>, <<" ", "h", "t", "t", "p", ":", "/", "/", "a", ".", "c", "o", " ">> }

\* inputs of a session of several submits
SessionInputs ==
    { <<"h", "t", "t", "p", ":", "/", "/", "a", ".", "c", "o">>, <<"h", "t", "t", "p", ":", "/", "/", "x", ".", "t", "k">>, <<"h", "t", "t", "p", ":", "/", "/", "/">>, <<"n", "o", "t", " ", "a", " ", "u", "r", "l", " ", "a", "t", " ", "a", "l", "l">>,
      <<"h", "t", "t", "p", ":", "/", "/", "g", "o", "o", "o", "g", "l", "e", ".", "c", "o", "m">>, <<"h", "t", "t", "p", ":", "/", "/", "x", ".", "t", "k", "?", "a", "&", "b", "&", "c", "&", "d", "&", "e">>, <<"h", "t", "t", "p", ":", "/", "/", "a", "@", "b">>,
      <<"h", "t", "t", "p", ":", "/", "/", "s", "e", "c", "u", "r", "e", "-", "l", "o", "g", "i", "n", ".", "x", "y", "z">>, <<"h", "t", "t", "p", ":", "/", "/", "s", "e", "c", "u", "r", "e", "-", "l", "o", "g", "i", "n", ".", "x", "y", "z", "/", "?", "a", "&", "b", "&", "c", "&", "d", "&", "e">>,
      <<"h", "t", "t", "p", ":", "/", "/", "1", "9", "2", ".", "1", "6", "8", ".", "1", ".", "1", "/", "l", "o", "g", "i", "n">>, <<"1", ".", "1">>, <<"a", "b", "c", ":", "/", "/">> }

LevAlphabet == { "a", "b" }

kitten == <<"k", "i", "t", "t", "e", "n">>

sitting == <<"s", "i", "t", "t", "i", "n", "g">>

-----------------------------------------------------------------------------
(* The page.                                                               *)

\* no call of analyzeURL has returned
NoAnalysis == [ score |-> -1, verdict |-> "none", reasons |-> << >> ]

\* lines 132-144: the colour of the verdict
ColorOf(verdict) ==
    IF verdict = "Safe" THEN "green"
    ELSE IF verdict = "Suspicious" THEN "orange"
    ELSE "red"

\* line 158: the reasons, or the fixed text when there are none
DetailsOf(reasons) ==
    IF Len(reasons) # 0 THEN reasons ELSE "No suspicious patterns detected."

PageInit ==
    /\ lastUrl = << >>
    /\ analysis = NoAnalysis
    /\ prev = NoAnalysis
    /\ resultText = ""
    /\ resultColor = ""
    /\ detailsText = ""
    /\ hidden = TRUE
    /\ alerted = FALSE

LevIdle == levA = << >> /\ levB = << >> /\ levDist = -1

\* lines 126-160: the analysis of a non-empty url and its display
Show(trimmed, result) ==
    /\ lastUrl' = trimmed
    /\ analysis' = result
    /\ prev' = analysis
    /\ resultText' = result.verdict
    /\ resultColor' = ColorOf(result.verdict)
    /\ detailsText' = DetailsOf(result.reasons)
    /\ hidden' = FALSE
    /\ alerted' = FALSE
    /\ UNCHANGED << urlInput, levA, levB, levDist >>

\* the submit handler of #urlForm, lines 118-161
Submit ==
    IF Trim(urlInput) = << >>
    THEN /\ alerted' = TRUE
         /\ UNCHANGED << urlInput, lastUrl, analysis, prev, resultText, resultColor,
                         detailsText, hidden, levA, levB, levDist >>
    ELSE Show(Trim(urlInput), analyzeURL(Trim(urlInput)))

\* the user replaces the text of #urlInput
Type(u) ==
    /\ urlInput' = u
    /\ UNCHANGED << lastUrl, analysis, prev, resultText, resultColor, detailsText,
                    hidden, alerted, levA, levB, levDist >>

\* a call levenshtein(levA, levB) returns
LevCall ==
    /\ levDist' = levenshtein(levA, levB)
    /\ UNCHANGED << urlInput, lastUrl, analysis, prev, resultText, resultColor,
                    detailsText, hidden, alerted, levA, levB >>

\* One submit of any input.
Init == urlInput \in Inputs /\ PageInit /\ LevIdle

Next == Submit

Spec == Init /\ [][Next]_vars

\* A session: the field is retyped between submits.
InitSession == urlInput \in SessionInputs /\ PageInit /\ LevIdle

NextSession ==
    \/ Submit
    \/ \E u \in SessionInputs : Type(u)

SpecSession == InitSession /\ [][NextSession]_vars

\* Calls of levenshtein on all pairs of short strings, and on one longer pair.
InitLev ==
    /\ urlInput = << >>
    /\ PageInit
    /\ \/ levA \in StringsUpTo(LevAlphabet, MaxLevLen)
          /\ levB \in StringsUpTo(LevAlphabet, MaxLevLen)
       \/ levA = kitten /\ levB = sitting
    /\ levDist = -1

NextLev == LevCall

SpecLev == InitLev /\ [][NextLev]_vars
-----------------------------------------------------------------------------
(* What the claims speak of.                                               *)

\* a call of analyzeURL has returned
Returned == analysis # NoAnalysis

ReasonTexts(result) == { result.reasons[i].text : i \in 1..Len(result.reasons) }

HasReason(text) == text \in ReasonTexts(analysis)

\* hostname extraction fails: getHostname returns null or an empty hostname
ExtractionFails(u) == getHostname(u).failure \/ getHostname(u).hostname = << >>

\* the hostname extracted from the url of the last call
Hostname == getHostname(lastUrl).hostname

\* the weight the rule of a reason adds
WeightOf(text) ==
    CASE text = "Malformed or missing protocol." -> 1
      [] text = "Cannot parse hostname." -> 3
      [] text = "Uses raw IP address." -> 5
      [] text = "Very long URL." -> 2
      [] text = "Very long hostname." -> 2
      [] text = "Multiple subdomains." -> 2
      [] text = "Suspicious TLD: " -> 3
      [] text = "Contains percent-encoding." -> 1
      [] text = "Contains '@' symbol." -> 4
      [] text = "Many hyphens in domain." -> 1
      [] text = "Many digits in domain." -> 1
      [] text = "Contains keyword " -> 2
      [] text = "Looks similar to popular site " -> 4
      [] text = "Long path or query." -> 1
      [] text = "Many query parameters." -> 1

RECURSIVE SumWeights(_, _)
SumWeights(reasons, n) ==
    IF n = 0 THEN 0 ELSE WeightOf(reasons[n].text) + SumWeights(reasons, n - 1)

Severity(verdict) ==
    CASE verdict = "Safe" -> 0 [] verdict = "Suspicious" -> 1 [] verdict = "Fraudulent" -> 2

PopularSet == { POPULAR_DOMAINS[i] : i \in 1..Len(POPULAR_DOMAINS) }

\* the positions of the typosquat reasons of the last result
TyposquatReasons ==
    { i \in 1..Len(analysis.reasons) :
        analysis.reasons[i].text = "Looks similar to popular site " }

\* the places in the list of the popular domains that n is close to without
\* being equal to
Qualifying(n) ==
    { i \in 1..Len(POPULAR_DOMAINS) :
        /\ 4 * levenshtein(n, POPULAR_DOMAINS[i]) <= Max2(Len(n), Len(POPULAR_DOMAINS[i]))
        /\ n # POPULAR_DOMAINS[i] }

\* everything in u after the first occurrence of h
AfterFirst(u, h) == From(u, IndexOf(u, h) + Len(h))

\* the strings one insertion, deletion or substitution away from s, over the
\* letters of LevAlphabet and no longer than cap
OneEdit(s, cap) ==
    { SubSeq(s, 1, i - 1) \o SubSeq(s, i + 1, Len(s)) : i \in 1..Len(s) }
    \cup { SubSeq(s, 1, i - 1) \o << c >> \o SubSeq(s, i + 1, Len(s)) :
             i \in 1..Len(s), c \in LevAlphabet }
    \cup IF Len(s) >= cap THEN {}
         ELSE { SubSeq(s, 1, i) \o << c >> \o SubSeq(s, i + 1, Len(s)) :
                  i \in 0..Len(s), c \in LevAlphabet }

\* the strings at most k edits away from s
RECURSIVE Within(_, _, _)
Within(s, k, cap) ==
    IF k = 0 THEN { s }
    ELSE Within(s, k - 1, cap) \cup UNION { OneEdit(t, cap) : t \in Within(s, k - 1, cap) }

\* the least number of edits that turn a into b (no shortest way passes
\* through a string longer than both)
MinEdits(a, b) ==
    CHOOSE k \in 0..Max2(Len(a), Len(b)) :
        /\ b \in Within(a, k, Max2(Len(a), Len(b)))
        /\ k = 0 \/ b \notin Within(a, k - 1, Max2(Len(a), Len(b)))

ShortStrings == StringsUpTo(LevAlphabet, MaxLevLen)

IPLogin == <<"h", "t", "t", "p", ":", "/", "/", "1", "9", "2", ".", "1", "6", "8", ".", "1", ".", "1", "/", "l", "o", "g", "i", "n">>

-----------------------------------------------------------------------------
(* The claims.                                                             *)

\* C1: when hostname extraction fails, analyzeURL returns "Fraudulent" at
\* once: the last reason is "Cannot parse hostname.", the only other reason
\* there may be is a "Malformed or missing protocol." before it, and score
\* is 3, plus 1 with the malformed reason.
C1_ShortCircuit ==
    (Returned /\ ExtractionFails(lastUrl)) =>
        /\ analysis.verdict = "Fraudulent"
        /\ Len(analysis.reasons) \in {1, 2}
        /\ analysis.reasons[Len(analysis.reasons)].text = "Cannot parse hostname."
        /\ Len(analysis.reasons) = 2 =>
               analysis.reasons[1].text = "Malformed or missing protocol."
        /\ analysis.score = 3 + (IF HasReason("Malformed or missing protocol.") THEN 1 ELSE 0)

C1_Witness ==
    /\ Returned
    /\ ExtractionFails(lastUrl)
    /\ Len(analysis.reasons) = 2

\* C2, as claimed: two results with the same score have the same verdict,
\* whether or not the hostname could be parsed.
C2_Original ==
    (Returned /\ prev # NoAnalysis /\ analysis.score = prev.score) =>
        analysis.verdict = prev.verdict

\* C2, amended: two results of inputs whose hostname could be parsed have the
\* same verdict when they have the same score.
C2_ParsedVerdictByScore ==
    ( /\ Returned
      /\ prev # NoAnalysis
      /\ "Cannot parse hostname." \notin ReasonTexts(analysis)
      /\ "Cannot parse hostname." \notin ReasonTexts(prev)
      /\ analysis.score = prev.score ) =>
        analysis.verdict = prev.verdict

C2_Witness ==
    /\ Returned
    /\ prev # NoAnalysis
    /\ "Cannot parse hostname." \notin ReasonTexts(analysis)
    /\ "Cannot parse hostname." \notin ReasonTexts(prev)
    /\ analysis.score = prev.score
    /\ analysis.reasons # prev.reasons

\* C3: when the hostname is extracted, the verdict is "Fraudulent" exactly
\* when score >= 8, "Suspicious" exactly when 4 <= score < 8 and "Safe"
\* exactly when score < 4; and no lower score maps to a more severe verdict.
C3_Thresholds ==
    (Returned /\ ~ExtractionFails(lastUrl)) =>
        /\ analysis.verdict = "Fraudulent" <=> analysis.score >= 8
        /\ analysis.verdict = "Suspicious" <=> (4 <= analysis.score /\ analysis.score < 8)
        /\ analysis.verdict = "Safe" <=> analysis.score < 4
        /\ \A s \in 0..analysis.score :
               Severity(Verdict(s)) <= Severity(analysis.verdict)

C3_Witness ==
    /\ Returned
    /\ ~ExtractionFails(lastUrl)
    /\ analysis.score = 8

\* C4: in every result, score is the sum of the weights of the reasons in
\* the list, and the list is empty exactly when score is 0.
C4_ScoreIsSum ==
    Returned =>
        /\ analysis.score = SumWeights(analysis.reasons, Len(analysis.reasons))
        /\ analysis.reasons = << >> <=> analysis.score = 0

C4_Witness ==
    /\ Returned
    /\ HasReason("Contains '@' symbol.")
    /\ Len(analysis.reasons) >= 4

\* C5, as claimed: "http://192.168.1.1/login" gets the raw-IP reason, the
\* reason of the keyword "login", and the verdict "Suspicious".
C5_Original ==
    (Returned /\ lastUrl = IPLogin) =>
        /\ HasReason("Uses raw IP address.")
        /\ \E i \in 1..Len(analysis.reasons) :
               analysis.reasons[i] = Reason("Contains keyword ", <<"l", "o", "g", "i", "n">>)
        /\ analysis.verdict = "Suspicious"

\* C5, amended: "http://192.168.1.1/login" gets the raw-IP reason, the
\* reason of the keyword "login", and the verdict "Fraudulent".
C5_IPLoginFraudulent ==
    (Returned /\ lastUrl = IPLogin) =>
        /\ HasReason("Uses raw IP address.")
        /\ \E i \in 1..Len(analysis.reasons) :
               analysis.reasons[i] = Reason("Contains keyword ", <<"l", "o", "g", "i", "n">>)
        /\ analysis.verdict = "Fraudulent"

C5_Witness == Returned /\ lastUrl = IPLogin

\* C6: when the normalized hostname is equal to one of the popular domains,
\* the result has no typosquat reason, for that domain or any other, and
\* no weight for one.
C6_ExactMatchNoTyposquat ==
    (Returned /\ ~ExtractionFails(lastUrl) /\ Normalized(Hostname) \in PopularSet) =>
        /\ TyposquatReasons = {}
        /\ analysis.score = SumWeights(analysis.reasons, Len(analysis.reasons))

C6_Witness ==
    /\ Returned
    /\ lastUrl = <<"h", "t", "t", "p", ":", "/", "/", "g", "o", "0", "g", "l", "e", ".", "c", "o", "m">>
    /\ Normalized(Hostname) = <<"g", "o", "o", "g", "l", "e", ".", "c", "o", "m">>

\* C7: when the hostname is extracted, the result has at most one typosquat
\* reason; it has one, with weight 4, exactly when the normalized hostname
\* is within a quarter of the longer length of some popular domain without
\* being equal to it, and the reason names the first such domain of the list.
C7_TyposquatOnce ==
    (Returned /\ ~ExtractionFails(lastUrl)) =>
        /\ Cardinality(TyposquatReasons) <= 1
        /\ TyposquatReasons # {} <=> Qualifying(Normalized(Hostname)) # {}
        /\ \A i \in TyposquatReasons :
               analysis.reasons[i].arg =
                   POPULAR_DOMAINS[SetMin(Qualifying(Normalized(Hostname)))]
        /\ analysis.score = SumWeights(analysis.reasons, Len(analysis.reasons))

C7_Witness ==
    /\ Returned
    /\ lastUrl = <<"h", "t", "t", "p", ":", "/", "/", "g", "o", "o", "o", "g", "l", "e", ".", "c", "o", "m">>
    /\ \E i \in TyposquatReasons : analysis.reasons[i].arg = <<"g", "o", "o", "g", "l", "e", ".", "c", "o", "m">>

\* C8: levenshtein(a, b) is the least number of single-character
\* insertions, deletions and substitutions that turn a into b; it is
\* len(s) against the empty string, 0 for equal strings, and 3 for "kitten"
\* and "sitting".
C8_Levenshtein ==
    levDist >= 0 =>
        /\ (levA \in ShortStrings /\ levB \in ShortStrings) =>
               levDist = MinEdits(levA, levB)
        /\ levA = << >> => levDist = Len(levB)
        /\ levB = << >> => levDist = Len(levA)
        /\ levA = levB => levDist = 0
        /\ (levA = kitten /\ levB = sitting) => levDist = 3

C8_Witness ==
    /\ levDist = 3
    /\ levA = kitten
    /\ levB = sitting

\* C9, as claimed: when the hostname is extracted and occurs in url, "Long
\* path or query." is there exactly when everything after its first
\* occurrence is longer than 80 characters, and "Many query parameters."
\* exactly when that has at least 5 of "?" and "&".
C9_WholeRest ==
    (Returned /\ ~ExtractionFails(lastUrl) /\ Includes(lastUrl, Hostname)) =>
        /\ HasReason("Long path or query.") <=> Len(AfterFirst(lastUrl, Hostname)) > 80
        /\ HasReason("Many query parameters.")
               <=> CountIn(AfterFirst(lastUrl, Hostname), {"?", "&"}) >= 5

\* C10: when the extracted hostname matches the raw-IP pattern, "Multiple
\* subdomains." and "Many digits in domain." are there too, score is at
\* least 8 and the verdict is "Fraudulent".
C10_RawIPFraudulent ==
    (Returned /\ ~ExtractionFails(lastUrl) /\ RawIPPattern(Hostname)) =>
        /\ HasReason("Uses raw IP address.")
        /\ HasReason("Multiple subdomains.")
        /\ HasReason("Many digits in domain.")
        /\ analysis.score >= 8
        /\ analysis.verdict = "Fraudulent"

C10_Witness ==
    /\ Returned
    /\ ~ExtractionFails(lastUrl)
    /\ RawIPPattern(Hostname)
    /\ ~Includes(lastUrl, Hostname)
====
